---- MODULE Spec2Model ----
(***************************************************************************)
(* A model of osr.py: the .osr replay decoder (Replay.from_file) and the   *)
(* memoized metrics of the Replay class.                                   *)
(*                                                                         *)
(* Representation.                                                         *)
(*   bytes / str    a sequence of integers (byte values / code points)     *)
(*   None           the empty tuple <<>>; a present value v is <<v>>       *)
(*   a frame        <<ts, x, y, b>>, as line 292 builds it                 *)
(*   a float        a reduced fraction <<num, den>>                        *)
(*   a return value [kind, val, exc]: kind names the Python type, val is   *)
(*                  the flattened tuple of numbers, exc the exception      *)
(*                  raised instead of returning ("" when none)             *)
(***************************************************************************)
EXTENDS Integers, Sequences, FiniteSets, TLC

VARIABLES
    raw,            \* the bytes f.read() returned (line 160)
    kind,           \* "whole": a complete replay file; "prefix": one cut short
    data,           \* from_file's cursor: the bytes not yet consumed
    pc,             \* the position in from_file; "done" once a Replay exists
    exc,            \* the exception from_file raised, "" when none
    val,            \* locals of the life-graph length loop (lines 242-244)
    shift,
    i,
    player_inputs,  \* the decompressed frame text (line 282)
    replay,         \* the Replay instance: every slot of lines 41-77
    op,             \* the metric called last, "" before the first call
    ret,            \* what that call returned
    watch,          \* observer: the metric whose first result is recorded
    first           \* observer: the first result of the watched metric

vars == <<raw, kind, data, pc, exc, val, shift, i, player_inputs, replay,
          op, ret, watch, first>>

decodeVars == <<raw, kind, data, pc, exc, val, shift, i, player_inputs>>
metricVars == <<op, ret, watch, first>>

----------------------------------------------------------------------------
(* Python values.                                                          *)

None == <<>>
Some(v) == <<v>>
Get(o) == o[1]

MOUSE_LEFT == 1
MOUSE_RIGHT == 2
K1 == 4
K2 == 8

RECURSIVE BitAnd(_, _)
BitAnd(a, b) ==
    IF a = 0 \/ b = 0 THEN 0
    ELSE (a % 2) * (b % 2) + 2 * BitAnd(a \div 2, b \div 2)

RECURSIVE BitOr(_, _)
BitOr(a, b) ==
    IF a = 0 THEN b
    ELSE IF b = 0 THEN a
    ELSE (IF a % 2 = 1 \/ b % 2 = 1 THEN 1 ELSE 0)
             + 2 * BitOr(a \div 2, b \div 2)

Abs(n) == IF n < 0 THEN -n ELSE n

RECURSIVE GCD(_, _)
GCD(a, b) == IF b = 0 THEN a ELSE GCD(b, a % b)

\* a / b for b # 0, as the reduced fraction with a positive denominator
TrueDiv(a, b) ==
    LET g == GCD(Abs(a), Abs(b))
        s == IF b < 0 THEN -1 ELSE 1
    IN  <<(s * a) \div g, Abs(b) \div g>>

RECURSIVE SumOf(_, _)
SumOf(s, k) == IF s = <<>> THEN 0 ELSE Head(s)[k] + SumOf(Tail(s), k)

IntRet(n) == [kind |-> "int", val |-> <<n>>, exc |-> ""]
TupleRet(a, b, c, d) == [kind |-> "tuple", val |-> <<a, b, c, d>>, exc |-> ""]
FloatRet(q) == [kind |-> "float", val |-> q, exc |-> ""]
FloatPairRet(p, q) == [kind |-> "float_tuple", val |-> p \o q, exc |-> ""]
NanRet == [kind |-> "nan", val |-> <<>>, exc |-> ""]
NanPairRet == [kind |-> "nan_tuple", val |-> <<>>, exc |-> ""]
Raise(e) == [kind |-> "raise", val |-> <<>>, exc |-> e]
NoRet == [kind |-> "", val |-> <<>>, exc |-> ""]

\* Replay.__init__: every slot is None
Replay_init ==
    [mode |-> None, version |-> None, beatmap_hash |-> None,
     player_name |-> None, replay_hash |-> None, count_of_perfect |-> None,
     count_of_good |-> None, count_of_bad |-> None, gekis |-> None,
     katus |-> None, misses |-> None, score |-> None, highest_combo |-> None,
     is_perfect |-> None, mods |-> None, life_graph |-> None,
     time_stamp_ns |-> None, replay_data |-> None, online_score_id |-> None,
     raw_input_data |-> None, seed |-> None,
     __total_x |-> None, __total_y |-> None,
     __mouse_left_frames |-> None, __mouse_right_frames |-> None,
     __k1_frames |-> None, __k2_frames |-> None,
     __mouse_left |-> None, __mouse_right |-> None,
     __k1 |-> None, __k2 |-> None, raw_data |-> None]

----------------------------------------------------------------------------
(* The metrics.  Each operator takes the instance and yields the instance  *)
(* after the call together with the value returned.                        *)

\* sum(map(lambda x: 1 if x[-1] & key else 0, self.raw_input_data))
RECURSIVE HeldFrames(_, _)
HeldFrames(frames, key) ==
    IF frames = <<>> THEN 0
    ELSE (IF BitAnd(Head(frames)[4], key) # 0 THEN 1 ELSE 0)
             + HeldFrames(Tail(frames), key)

\* the loop of __true_count_of, from the state (count, key_is_up)
RECURSIVE TrueCountLoop(_, _, _, _)
TrueCountLoop(frames, key, count, key_is_up) ==
    IF frames = <<>> THEN count
    ELSE LET bit == BitAnd(Head(frames)[4], key) # 0
         IN  IF bit /\ ~key_is_up
                 THEN TrueCountLoop(Tail(frames), key, count, TRUE)
             ELSE IF ~bit /\ key_is_up
                 THEN TrueCountLoop(Tail(frames), key, count + 1, FALSE)
             ELSE TrueCountLoop(Tail(frames), key, count, key_is_up)

true_count_of(self, key) ==
    IF self.raw_input_data = None THEN -1
    ELSE TrueCountLoop(Get(self.raw_input_data), key, 0, TRUE)

click_count(self) ==
    IF /\ self.__mouse_left_frames # None
       /\ self.__mouse_right_frames # None
       /\ self.__k1_frames # None
       /\ self.__k2_frames # None
    THEN [self |-> self,
          ret |-> TupleRet(Get(self.__mouse_right_frames),
                           Get(self.__mouse_right_frames),
                           Get(self.__k1_frames), Get(self.__k2_frames))]
    ELSE IF self.raw_input_data = None
    THEN [self |-> self, ret |-> TupleRet(-1, -1, -1, -1)]
    ELSE LET frames == Get(self.raw_input_data)
             n_left == HeldFrames(frames, MOUSE_LEFT)
             n_right == HeldFrames(frames, MOUSE_RIGHT)
             k_1 == HeldFrames(frames, K1)
             k_2 == HeldFrames(frames, K2)
         IN  [self |-> [self EXCEPT !.__mouse_left_frames = Some(n_left - k_1),
                                    !.__mouse_right_frames = Some(n_right - k_2),
                                    !.__k1_frames = Some(k_1),
                                    !.__k2_frames = Some(k_2)],
              ret |-> TupleRet(n_left - k_1, n_right - k_2, k_1, k_2)]

true_click_count(self) ==
    IF /\ self.__mouse_right # None
       /\ self.__mouse_left # None
       /\ self.__k1 # None
       /\ self.__k2 # None
    THEN [self |-> self,
          ret |-> TupleRet(Get(self.__mouse_left), Get(self.__mouse_right),
                           Get(self.__k1), Get(self.__k2))]
    ELSE IF self.raw_input_data = None
    THEN [self |-> self, ret |-> TupleRet(-1, -1, -1, -1)]
    ELSE LET n_left == true_count_of(self, MOUSE_LEFT)
             n_right == true_count_of(self, MOUSE_RIGHT)
             n_k1 == true_count_of(self, K1)
             n_k2 == true_count_of(self, K2)
         IN  [self |-> [self EXCEPT !.__k1 = Some(n_k1),
                                    !.__k2 = Some(n_k2),
                                    !.__mouse_left = Some(n_left - n_k1),
                                    !.__mouse_right = Some(n_right - n_k2)],
              ret |-> TupleRet(n_left - n_k1, n_right - n_k2, n_k1, n_k2)]

mouse_left(self) ==
    IF self.__mouse_left = None
    THEN LET n_k1 == true_count_of(self, K1)
             n_left == true_count_of(self, MOUSE_LEFT) - n_k1
         IN  [self |-> [self EXCEPT !.__k1 = Some(n_k1),
                                    !.__mouse_left = Some(n_left)],
              ret |-> IntRet(n_left)]
    ELSE [self |-> self, ret |-> IntRet(Get(self.__mouse_left))]

mouse_right(self) ==
    IF self.__mouse_right = None
    THEN LET n_k2 == true_count_of(self, K2)
             n_right == true_count_of(self, MOUSE_RIGHT) - n_k2
         IN  [self |-> [self EXCEPT !.__k2 = Some(n_k2),
                                    !.__mouse_right = Some(n_right)],
              ret |-> IntRet(n_right)]
    ELSE [self |-> self, ret |-> IntRet(Get(self.__mouse_right))]

k1(self) ==
    IF self.__k1 = None
    THEN LET n_k1 == true_count_of(self, K1)
         IN  [self |-> [self EXCEPT !.__k1 = Some(n_k1)], ret |-> IntRet(n_k1)]
    ELSE [self |-> self, ret |-> IntRet(Get(self.__k1))]

k2(self) ==
    IF self.__k2 = None
    THEN LET n_k2 == true_count_of(self, K2)
         IN  [self |-> [self EXCEPT !.__k2 = Some(n_k2)], ret |-> IntRet(n_k2)]
    ELSE [self |-> self, ret |-> IntRet(Get(self.__k2))]

k1_frames(self) ==
    IF self.raw_input_data = None THEN [self |-> self, ret |-> IntRet(-1)]
    ELSE IF self.__k1_frames = None
    THEN [self |-> self,
          ret |-> IntRet(HeldFrames(Get(self.raw_input_data), K1))]
    ELSE [self |-> self, ret |-> IntRet(Get(self.__k1_frames))]

mouse_left_frames(self) ==
    IF self.raw_input_data = None THEN [self |-> self, ret |-> IntRet(-1)]
    ELSE IF self.__mouse_left_frames = None
    THEN LET s1 == IF self.__k1_frames = None
                   THEN [self EXCEPT
                            !.__k1_frames = Some(k1_frames(self).ret.val[1])]
                   ELSE self
             n == HeldFrames(Get(s1.raw_input_data), MOUSE_LEFT)
                      - Get(s1.__k1_frames)
         IN  [self |-> [s1 EXCEPT !.__mouse_left_frames = Some(n)],
              ret |-> IntRet(n)]
    ELSE [self |-> self, ret |-> IntRet(Get(self.__mouse_left_frames))]

\* lines 496-499 read __k1_frames and K1, as the source does
k2_frames(self) ==
    IF self.raw_input_data = None THEN [self |-> self, ret |-> IntRet(-1)]
    ELSE IF self.__k1_frames = None
    THEN [self |-> self,
          ret |-> IntRet(HeldFrames(Get(self.raw_input_data), K1))]
    ELSE [self |-> self, ret |-> IntRet(Get(self.__k1_frames))]

mouse_right_frames(self) ==
    IF self.raw_input_data = None THEN [self |-> self, ret |-> IntRet(-1)]
    ELSE IF self.__mouse_right_frames = None
    THEN LET s1 == IF self.__k2_frames = None
                   THEN [self EXCEPT
                            !.__k2_frames = Some(k2_frames(self).ret.val[1])]
                   ELSE self
             n == HeldFrames(Get(s1.raw_input_data), MOUSE_RIGHT)
                      - Get(s1.__k2_frames)
         IN  [self |-> [s1 EXCEPT !.__mouse_right_frames = Some(n)],
              ret |-> IntRet(n)]
    ELSE [self |-> self, ret |-> IntRet(Get(self.__mouse_right_frames))]

average_position(self) ==
    IF self.raw_input_data = None THEN [self |-> self, ret |-> NanPairRet]
    ELSE LET frames == Get(self.raw_input_data)
             s1 == IF self.__total_x = None
                   THEN [self EXCEPT !.__total_x = Some(SumOf(frames, 2))]
                   ELSE self
             s2 == IF s1.__total_y = None
                   THEN [s1 EXCEPT !.__total_y = Some(SumOf(frames, 3))]
                   ELSE s1
         IN  IF Len(frames) = 0
             THEN [self |-> s2, ret |-> Raise("ZeroDivisionError")]
             ELSE [self |-> s2,
                   ret |-> FloatPairRet(
                               TrueDiv(Get(s2.__total_x), Len(frames)),
                               TrueDiv(Get(s2.__total_y), Len(frames)))]

\* statistics.mode: the most common value, the first met among equals
Occurrences(s, v) == Cardinality({j \in DOMAIN s : s[j] = v})

mode(s) ==
    LET best == CHOOSE j \in DOMAIN s :
                    /\ \A k \in DOMAIN s :
                           Occurrences(s, s[k]) <= Occurrences(s, s[j])
                    /\ \A k \in 1..(j - 1) :
                           Occurrences(s, s[k]) < Occurrences(s, s[j])
    IN  s[best]

estimated_frame_rate(self) ==
    IF self.raw_input_data = None THEN [self |-> self, ret |-> NanRet]
    ELSE LET frames == Get(self.raw_input_data)
             delays == [j \in DOMAIN frames |-> frames[j][1]]
         IN  IF delays = <<>>
             THEN [self |-> self, ret |-> Raise("StatisticsError")]
             ELSE IF mode(delays) = 0
             THEN [self |-> self, ret |-> Raise("ZeroDivisionError")]
             ELSE [self |-> self, ret |-> FloatRet(TrueDiv(1000, mode(delays)))]

Metrics ==
    {"click_count", "true_click_count", "mouse_left", "mouse_right", "k1",
     "k2", "k1_frames", "mouse_left_frames", "k2_frames",
     "mouse_right_frames", "average_position", "estimated_frame_rate"}

\* a call of a metric on the decoded (or caller-built) instance
Invoke(name, r) ==
    /\ pc = "done"
    /\ replay' = r.self
    /\ op' = name
    /\ ret' = r.ret
    /\ first' = IF name = watch /\ first = None THEN Some(r.ret) ELSE first
    /\ UNCHANGED <<decodeVars, watch>>

Call_click_count == Invoke("click_count", click_count(replay))
Call_true_click_count == Invoke("true_click_count", true_click_count(replay))
Call_mouse_left == Invoke("mouse_left", mouse_left(replay))
Call_mouse_right == Invoke("mouse_right", mouse_right(replay))
Call_k1 == Invoke("k1", k1(replay))
Call_k2 == Invoke("k2", k2(replay))
Call_k1_frames == Invoke("k1_frames", k1_frames(replay))
Call_mouse_left_frames == Invoke("mouse_left_frames", mouse_left_frames(replay))
Call_k2_frames == Invoke("k2_frames", k2_frames(replay))
Call_mouse_right_frames ==
    Invoke("mouse_right_frames", mouse_right_frames(replay))
Call_average_position == Invoke("average_position", average_position(replay))
Call_estimated_frame_rate ==
    Invoke("estimated_frame_rate", estimated_frame_rate(replay))

----------------------------------------------------------------------------
(* Replay.from_file.  The cursor `data` is re-bound to the unread rest     *)
(* after every field; a raise leaves pc at the step that raised and sets   *)
(* exc, and no Replay is returned.                                         *)

Marker == 11
Comma == 44
Pipe == 124
Minus == 45
Digit0 == 48
SeedDelta == -12345

Min(a, b) == IF a < b THEN a ELSE b

\* data[0:n] and data[n:] : a slice past the end is cut at the end
Take(d, n) == SubSeq(d, 1, Min(n, Len(d)))
Drop(d, n) == SubSeq(d, Min(n, Len(d)) + 1, Len(d))

\* int.from_bytes(x, "little") and int.from_bytes(x, "big")
RECURSIVE from_small_bytes(_)
from_small_bytes(x) ==
    IF x = <<>> THEN 0 ELSE Head(x) + 256 * from_small_bytes(Tail(x))

RECURSIVE from_big_bytes(_)
from_big_bytes(x) ==
    IF x = <<>> THEN 0
    ELSE 256 * from_big_bytes(SubSeq(x, 1, Len(x) - 1)) + x[Len(x)]

\* bool.from_bytes(x, "little")
bool_from_bytes(x) == from_small_bytes(x) # 0

\* bytes.decode("utf-8") on buffers without a lead byte (0xC2..0xF4): a
\* byte below 0x80 is its own code point, any other byte is not decodable
utf8_decode(b) ==
    IF \A j \in DOMAIN b : b[j] < 128
    THEN [ok |-> TRUE, v |-> b]
    ELSE [ok |-> FALSE, v |-> <<>>]

\* the conversionFn arguments of the calls of _get_data_point, by name
Convert(conversionFn, x) ==
    CASE conversionFn = "_from_small_bytes" -> from_small_bytes(x)
      [] conversionFn = "_from_big_bytes" -> from_big_bytes(x)
      [] conversionFn = "bool.from_bytes" -> bool_from_bytes(x)
      [] conversionFn = "decode" -> utf8_decode(x)
      [] conversionFn = "bytearray" -> x
      [] conversionFn = "default" -> x

get_data_point(d, length, conversionFn) ==
    <<Convert(conversionFn, Take(d, length)), Drop(d, length)>>

\* str.split(sep) for a one-character separator
RECURSIVE Split(_, _)
Split(s, sep) ==
    IF \A j \in DOMAIN s : s[j] # sep THEN <<s>>
    ELSE LET k == CHOOSE j \in DOMAIN s :
                      s[j] = sep /\ \A m \in 1..(j - 1) : s[m] # sep
         IN  <<SubSeq(s, 1, k - 1)>> \o Split(SubSeq(s, k + 1, Len(s)), sep)

RECURSIVE DigitsValue(_, _)
DigitsValue(s, acc) ==
    IF s = <<>> THEN acc
    ELSE DigitsValue(Tail(s), 10 * acc + (Head(s) - Digit0))

\* int(s) on text of "-" and decimal digits: ValueError unless it is an
\* optional "-" followed by one digit or more
ParseInt(s) ==
    LET signed == s # <<>> /\ s[1] = Minus
        digits == IF signed THEN Tail(s) ELSE s
    IN  IF digits # <<>> /\ \A j \in DOMAIN digits :
                                 digits[j] \in Digit0..(Digit0 + 9)
        THEN [ok |-> TRUE,
              v |-> IF signed
                    THEN -DigitsValue(digits, 0) ELSE DigitsValue(digits, 0)]
        ELSE [ok |-> FALSE, v |-> 0]

\* float(s) on the same text: the float of that whole number, written as
\* the number itself
ParseFloat(s) ==
    LET signed == s # <<>> /\ s[1] = Minus
        digits == IF signed THEN Tail(s) ELSE s
    IN  IF digits # <<>> /\ \A j \in DOMAIN digits :
                                 digits[j] \in Digit0..(Digit0 + 9)
        THEN [ok |-> TRUE,
              v |-> IF signed
                    THEN -DigitsValue(digits, 0) ELSE DigitsValue(digits, 0)]
        ELSE [ok |-> FALSE, v |-> 0]

\* lzma.open("file.lzma").read() on the bytes written at line 280.  The
\* codec is an external library; it is modelled as a container that opens
\* with a properties byte and closes with an end-of-stream byte, and that
\* raises on a stream lacking either.
LzmaProps == 93
LzmaEnd == 0

lzma_read(blob) ==
    IF blob = <<>> THEN [exc |-> "EOFError", v |-> <<>>]
    ELSE IF blob[1] # LzmaProps THEN [exc |-> "LZMAError", v |-> <<>>]
    ELSE IF Len(blob) < 2 \/ blob[Len(blob)] # LzmaEnd
        THEN [exc |-> "EOFError", v |-> <<>>]
    ELSE [exc |-> "", v |-> SubSeq(blob, 2, Len(blob) - 1)]

Running(at) == pc = at /\ exc = ""

Goto(next) == pc' = next /\ exc' = exc

RaiseAt(e) == pc' = pc /\ exc' = e

\* lines 166-171
ReadMode ==
    /\ Running("mode")
    /\ LET p == get_data_point(data, 1, "_from_big_bytes")
       IN  /\ data' = p[2]
           /\ replay' = [replay EXCEPT !.raw_data = Some(raw),
                                       !.mode = Some(p[1])]
           /\ IF p[1] > 4 THEN RaiseAt("BadReplayDataException")
              ELSE Goto("version")
    /\ UNCHANGED <<raw, kind, val, shift, i, player_inputs, metricVars>>

\* lines 173-175
ReadVersion ==
    /\ Running("version")
    /\ LET p == get_data_point(data, 4, "default")
       IN  /\ data' = p[2]
           /\ replay' = [replay EXCEPT !.version = Some(p[1])]
    /\ Goto("beatmap_hash")
    /\ UNCHANGED <<raw, kind, val, shift, i, player_inputs, metricVars>>

\* the slip of leaving the marker of an absent section unread
SkipMarkerUnread(d) == d

\* data = data[1:] on a section whose marker is not 0x0b
SkipMarker(d) == Drop(d, 1)

\* one marker-gated string section (lines 178-187, 189-196, 198-205): the
\* field read (None when the marker is not 0x0b) and the cursor after it
GatedString(d) ==
    IF d = <<>> THEN [exc |-> "IndexError", field |-> None, data |-> d]
    ELSE IF d[1] = Marker
    THEN LET d1 == Drop(d, 1)
             len == get_data_point(d1, 1, "_from_small_bytes")
             str == get_data_point(len[2], len[1], "decode")
         IN  IF str[1].ok
             THEN [exc |-> "", field |-> Some(str[1].v), data |-> str[2]]
             ELSE [exc |-> "UnicodeDecodeError", field |-> None, data |-> len[2]]
    ELSE [exc |-> "", field |-> None, data |-> SkipMarker(d)]

ReadBeatmapHash ==
    /\ Running("beatmap_hash")
    /\ LET g == GatedString(data)
       IN  /\ data' = g.data
           /\ IF g.exc # "" THEN RaiseAt(g.exc) /\ replay' = replay
              ELSE /\ Goto("player_name")
                   /\ replay' = IF g.field = None THEN replay
                                ELSE [replay EXCEPT !.beatmap_hash = g.field]
    /\ UNCHANGED <<raw, kind, val, shift, i, player_inputs, metricVars>>

ReadPlayerName ==
    /\ Running("player_name")
    /\ LET g == GatedString(data)
       IN  /\ data' = g.data
           /\ IF g.exc # "" THEN RaiseAt(g.exc) /\ replay' = replay
              ELSE /\ Goto("replay_hash")
                   /\ replay' = IF g.field = None THEN replay
                                ELSE [replay EXCEPT !.player_name = g.field]
    /\ UNCHANGED <<raw, kind, val, shift, i, player_inputs, metricVars>>

ReadReplayHash ==
    /\ Running("replay_hash")
    /\ LET g == GatedString(data)
       IN  /\ data' = g.data
           /\ IF g.exc # "" THEN RaiseAt(g.exc) /\ replay' = replay
              ELSE /\ Goto("counts")
                   /\ replay' = IF g.field = None THEN replay
                                ELSE [replay EXCEPT !.replay_hash = g.field]
    /\ UNCHANGED <<raw, kind, val, shift, i, player_inputs, metricVars>>

\* lines 207-236
ReadCounts ==
    /\ Running("counts")
    /\ LET threehundreds == get_data_point(data, 2, "_from_small_bytes")
           hundreds == get_data_point(threehundreds[2], 2, "_from_small_bytes")
           fifties == get_data_point(hundreds[2], 2, "_from_small_bytes")
           n_gekis == get_data_point(fifties[2], 2, "_from_small_bytes")
           n_katus == get_data_point(n_gekis[2], 2, "_from_small_bytes")
           n_misses == get_data_point(n_katus[2], 2, "_from_small_bytes")
           n_score == get_data_point(n_misses[2], 4, "_from_small_bytes")
           biggest_combo == get_data_point(n_score[2], 2, "_from_small_bytes")
           perfect == get_data_point(biggest_combo[2], 1, "bool.from_bytes")
           n_mods == get_data_point(perfect[2], 4, "_from_small_bytes")
       IN  /\ data' = n_mods[2]
           /\ replay' = [replay EXCEPT
                           !.count_of_perfect = Some(threehundreds[1]),
                           !.count_of_good = Some(hundreds[1]),
                           !.count_of_bad = Some(fifties[1]),
                           !.gekis = Some(n_gekis[1]),
                           !.katus = Some(n_katus[1]),
                           !.misses = Some(n_misses[1]),
                           !.score = Some(n_score[1]),
                           !.highest_combo = Some(biggest_combo[1]),
                           !.is_perfect = Some(perfect[1]),
                           !.mods = Some(n_mods[1])]
    /\ Goto("life_graph")
    /\ UNCHANGED <<raw, kind, val, shift, i, player_inputs, metricVars>>

\* lines 239-244 and 270
ReadLifeGraphMarker ==
    /\ Running("life_graph")
    /\ IF data = <<>>
       THEN RaiseAt("IndexError") /\ UNCHANGED <<data, val, shift, i>>
       ELSE IF data[1] = Marker
       THEN /\ data' = Drop(data, 1)
            /\ val' = 0
            /\ shift' = 0
            /\ i' = 0
            /\ Goto("varint")
       ELSE /\ data' = Drop(data, 1)
            /\ Goto("timestamp")
            /\ UNCHANGED <<val, shift, i>>
    /\ UNCHANGED <<raw, kind, player_inputs, replay, metricVars>>

\* the slip of accumulating the byte with its continuation bit
AccumulateUnmasked(v, b, sh) == BitOr(v, b * (2 ^ sh))

\* val |= (b & 0x7f) << shift
Accumulate(v, b, sh) == BitOr(v, BitAnd(b, 127) * (2 ^ sh))

\* (b & 0x80) == 0
LastByte(b) == BitAnd(b, 128) = 0

\* one turn of the loop of lines 245-255
VarintStep ==
    /\ Running("varint")
    /\ IF i >= Len(data)
       THEN RaiseAt("IndexError") /\ UNCHANGED <<val, shift, i>>
       ELSE LET b == data[i + 1]
            IN  /\ val' = Accumulate(val, b, shift)
                /\ IF LastByte(b)
                   THEN Goto("chart") /\ UNCHANGED <<shift, i>>
                   ELSE Goto("varint") /\ shift' = shift + 7 /\ i' = i + 1
    /\ UNCHANGED <<raw, kind, data, player_inputs, replay, metricVars>>

\* lines 260-264: the (time, life) pairs of the chart text
RECURSIVE ChartPairs(_)
ChartPairs(records) ==
    IF records = <<>> THEN [exc |-> "", v |-> <<>>]
    ELSE LET x == Split(Head(records), Pipe)
             rest == ChartPairs(Tail(records))
         IN  IF x[1] = <<>> THEN rest
             ELSE IF Len(x) # 2 \/ ~ParseInt(x[1]).ok \/ ~ParseFloat(x[2]).ok
                 THEN [exc |-> "ValueError", v |-> <<>>]
             ELSE IF rest.exc # "" THEN rest
             ELSE [exc |-> "",
                   v |-> <<<<ParseInt(x[1]).v, ParseFloat(x[2]).v>>>> \o rest.v]

\* data = data[i + 1:]
SkipVarint(d, n) == Drop(d, n + 1)

\* lines 256-268
ReadChart ==
    /\ Running("chart")
    /\ LET d1 == SkipVarint(data, i)
           chart == utf8_decode(Take(d1, val))
           chart_data == ChartPairs(Split(chart.v, Comma))
       IN  IF ~chart.ok
           THEN RaiseAt("UnicodeDecodeError") /\ data' = d1 /\ replay' = replay
           ELSE IF chart_data.exc # ""
           THEN RaiseAt(chart_data.exc) /\ data' = d1 /\ replay' = replay
           ELSE /\ data' = Drop(d1, val)
                /\ replay' = [replay EXCEPT !.life_graph = Some(chart_data.v)]
                /\ Goto("timestamp")
    /\ UNCHANGED <<raw, kind, val, shift, i, player_inputs, metricVars>>

\* lines 272-278
ReadPayload ==
    /\ Running("timestamp")
    /\ LET stamp == get_data_point(data, 8, "_from_small_bytes")
           replay_data_len == get_data_point(stamp[2], 4, "_from_small_bytes")
           blob == get_data_point(replay_data_len[2], replay_data_len[1],
                                  "bytearray")
           score_id == get_data_point(blob[2], 8, "_from_small_bytes")
       IN  /\ data' = score_id[2]
           /\ replay' = [replay EXCEPT !.time_stamp_ns = Some(stamp[1]),
                                       !.replay_data = Some(blob[1]),
                                       !.online_score_id = Some(score_id[1])]
    /\ Goto("lzma")
    /\ UNCHANGED <<raw, kind, val, shift, i, player_inputs, metricVars>>

\* lines 279-282
Decompress ==
    /\ Running("lzma")
    /\ LET out == lzma_read(Get(replay.replay_data))
           text == utf8_decode(out.v)
       IN  IF out.exc # ""
           THEN RaiseAt(out.exc) /\ player_inputs' = player_inputs
           ELSE IF ~text.ok
           THEN RaiseAt("UnicodeDecodeError") /\ player_inputs' = player_inputs
           ELSE Goto("frames") /\ player_inputs' = text.v
    /\ UNCHANGED <<raw, kind, data, val, shift, i, replay, metricVars>>

\* lines 284-292: the frames of the text, empty records skipped
RECURSIVE Groups(_)
Groups(records) ==
    IF records = <<>> THEN [exc |-> "", v |-> <<>>]
    ELSE LET n == Head(records)
             f == Split(n, Pipe)
             rest == Groups(Tail(records))
         IN  IF n = <<>> THEN rest
             ELSE IF \/ Len(f) # 4
                     \/ ~ParseInt(f[1]).ok \/ ~ParseFloat(f[2]).ok
                     \/ ~ParseFloat(f[3]).ok \/ ~ParseInt(f[4]).ok
                 THEN [exc |-> "ValueError", v |-> <<>>]
             ELSE IF rest.exc # "" THEN rest
             ELSE [exc |-> "",
                   v |-> <<<<ParseInt(f[1]).v, ParseFloat(f[2]).v,
                             ParseFloat(f[3]).v, ParseInt(f[4]).v>>>>
                             \o rest.v]

\* lines 294-298: the seed and the frames kept
SplitSeed(groups) ==
    IF groups[Len(groups)][1] = SeedDelta
    THEN [seed |-> Some(groups[Len(groups)][4]),
          frames |-> SubSeq(groups, 1, Len(groups) - 1)]
    ELSE [seed |-> None, frames |-> groups]

\* lines 284-299
ParseFrames ==
    /\ Running("frames")
    /\ LET groups == Groups(Split(player_inputs, Comma))
       IN  IF groups.exc # ""
           THEN RaiseAt(groups.exc) /\ replay' = replay
           ELSE IF groups.v = <<>>
           THEN RaiseAt("IndexError") /\ replay' = replay
           ELSE /\ replay' =
                      [replay EXCEPT
                          !.seed = IF SplitSeed(groups.v).seed = None
                                   THEN @ ELSE SplitSeed(groups.v).seed,
                          !.raw_input_data = Some(SplitSeed(groups.v).frames)]
                /\ Goto("done")
    /\ UNCHANGED <<raw, kind, data, val, shift, i, player_inputs, metricVars>>

----------------------------------------------------------------------------
(* The replay files decoded.  A file is laid out field by field in the     *)
(* order from_file reads them; the families below vary one part of the     *)
(* file each, and the last holds every proper prefix of complete files.    *)
(* The byte values keep every integer field read below 2^31.               *)

MaxStrLen == 1
MaxRecords == 2
MaxChartRecords == 2

RECURSIVE EncodeVarint(_)
EncodeVarint(n) ==
    IF n < 128 THEN <<n>> ELSE <<(n % 128) + 128>> \o EncodeVarint(n \div 128)

RECURSIVE IntText(_)
IntText(n) ==
    IF n < 0 THEN <<Minus>> \o IntText(-n)
    ELSE IF n < 10 THEN <<Digit0 + n>>
    ELSE IntText(n \div 10) \o <<Digit0 + (n % 10)>>

RECURSIVE Join(_, _)
Join(parts, sep) ==
    IF parts = <<>> THEN <<>>
    ELSE IF Len(parts) = 1 THEN parts[1]
    ELSE parts[1] \o <<sep>> \o Join(Tail(parts), sep)

RECURSIVE Repeat(_, _)
Repeat(s, n) == IF n = 0 THEN <<>> ELSE s \o Repeat(s, n - 1)

Le32(n) == <<n % 256, (n \div 256) % 256, (n \div 65536) % 256, n \div 16777216>>

VersionBytes == <<21, 52, 49, 1>>
CountBytes ==
    <<1, 1, 2, 1, 3, 1, 4, 1, 5, 1, 6, 1,  7, 1, 0, 0,  8, 1,  1,  9, 1, 0, 0>>
CountBytesNotPerfect ==
    <<6, 2, 5, 2, 4, 2, 3, 2, 2, 2, 1, 2,  0, 3, 7, 0,  1, 3,  0,  11, 0, 0, 0>>
StampBytes == <<9, 0, 0, 0, 0, 0, 0, 0>>
ScoreIdBytes == <<6, 5, 0, 0, 0, 0, 0, 0>>

Absent(m) == [present |-> FALSE, marker |-> m, str |-> <<>>]
Present(s) == [present |-> TRUE, marker |-> Marker, str |-> s]

Section(s) ==
    IF s.present THEN <<Marker, Len(s.str)>> \o s.str ELSE <<s.marker>>

Strings == UNION {[1..n -> {65, Marker, 128}] : n \in 0..MaxStrLen}
Sections == {Absent(0), Absent(12)} \cup {Present(s) : s \in Strings}

Compress(text) == <<LzmaProps>> \o text \o <<LzmaEnd>>

FrameRecord(ts, x, y, b) ==
    IntText(ts) \o <<Pipe>> \o IntText(x) \o <<Pipe>> \o IntText(y)
        \o <<Pipe>> \o IntText(b)

PlainRecord == FrameRecord(16, 2, 4, 5)
SeedRecord == FrameRecord(SeedDelta, 0, 0, 77)
ShortRecord == IntText(1) \o <<Pipe>> \o IntText(2) \o <<Pipe>> \o IntText(3)

RecordLists ==
    UNION {[1..n -> {PlainRecord, SeedRecord, ShortRecord, <<>>}] :
               n \in 0..MaxRecords}
FrameTexts ==
    {Join(r, Comma) : r \in RecordLists}
        \cup {Join(r, Comma) \o <<Comma>> : r \in RecordLists}

PlainText == Join(<<PlainRecord, FrameRecord(0, 4, 8, 1), SeedRecord>>, Comma)

ChartRecord(t, l) == IntText(t) \o <<Pipe>> \o IntText(l)
ChartRecords ==
    {ChartRecord(16, 1), ChartRecord(32, 0), <<Pipe, Digit0 + 1>>,
     IntText(7), <<>>}
Charts ==
    {Join(r, Comma) :
        r \in UNION {[1..n -> ChartRecords] : n \in 0..MaxChartRecords}}
LongChart == Repeat(ChartRecord(16, 1) \o <<Comma>>, 26)

VarintValues ==
    {0, 1, 127, 128, 129, 300, 16383, 16384, 2097151, 2097152, 268435455,
     268435456, 2147483647}

NoLifeGraph == <<0>>
LifeGraphSection(n, chart) == <<Marker>> \o EncodeVarint(n) \o chart

File(m, s1, s2, s3, counts, graph, blob) ==
    <<m>> \o VersionBytes \o Section(s1) \o Section(s2) \o Section(s3)
        \o counts \o graph \o StampBytes \o Le32(Len(blob)) \o blob
        \o ScoreIdBytes

HeaderFiles ==
    {File(0, s1, s2, s3, CountBytes, NoLifeGraph, Compress(PlainText)) :
        s1 \in Sections, s2 \in Sections, s3 \in Sections}

ModeFiles ==
    {File(m, Present(<<65>>), Absent(0), Present(<<>>), c, NoLifeGraph,
          Compress(PlainText)) :
        m \in 0..5, c \in {CountBytes, CountBytesNotPerfect}}

LifeGraphFiles ==
    {File(1, Present(<<65>>), Absent(0), Present(<<65>>), CountBytes,
          LifeGraphSection(Len(c), c), Compress(PlainText)) : c \in Charts}

\* a length that need not be the chart's: the bytes after the length are
\* a chart, or open with a byte whose high bit is set
VarintFiles ==
    {File(1, s, s, Absent(0), CountBytes, LifeGraphSection(n, c),
          Compress(PlainText)) :
        n \in VarintValues, c \in {<<>>, <<Comma>>, <<255>>},
        s \in {Absent(0), Present(<<65>>)}}

FrameFiles ==
    {File(2, Present(<<65>>), Present(<<65>>), Absent(0), CountBytes,
          NoLifeGraph, Compress(t)) : t \in FrameTexts}

\* complete, decodable replays, and every buffer that ends before one does
WellFormedFiles ==
    {File(0, Present(<<65, 66>>), Present(<<67>>), Present(<<68, 69>>),
          CountBytes, NoLifeGraph, Compress(PlainText)),
     File(3, Absent(0), Present(<<65>>), Absent(0), CountBytesNotPerfect,
          LifeGraphSection(Len(LongChart), LongChart), Compress(PlainText)),
     File(0, Absent(0), Absent(0), Absent(0), CountBytes,
          LifeGraphSection(0, <<>>), Compress(PlainRecord))}

Prefixes ==
    UNION {{Take(f, n) : n \in 0..(Len(f) - 1)} : f \in WellFormedFiles}

Inputs ==
    {<<f, "whole">> :
        f \in HeaderFiles \cup ModeFiles \cup LifeGraphFiles \cup VarintFiles
                  \cup FrameFiles \cup WellFormedFiles}
        \cup {<<f, "prefix">> : f \in Prefixes}

----------------------------------------------------------------------------
(* The instances the metrics are checked on: raw_input_data is None (a     *)
(* Replay() nothing was decoded into) or a tuple of up to MaxFrames        *)
(* frames, the empty tuple included (from_file yields it for a frame text  *)
(* that holds the seed record only).                                       *)

MaxFrames == 3

SampleFrames ==
    { <<16, 2, 4, 0>>, <<16, 4, 8, 1>>, <<0, 2, 4, 5>>, <<8, 6, 2, 10>> }

FrameTuples == UNION {[1..n -> SampleFrames] : n \in 0..MaxFrames}

Init ==
    /\ raw = <<>>
    /\ kind = "whole"
    /\ data = <<>>
    /\ pc = "done"
    /\ exc = ""
    /\ val = 0
    /\ shift = 0
    /\ i = 0
    /\ player_inputs = <<>>
    /\ \E rid \in {None} \cup {Some(t) : t \in FrameTuples} :
           replay = [Replay_init EXCEPT !.raw_input_data = rid]
    /\ op = ""
    /\ ret = NoRet
    /\ watch \in Metrics
    /\ first = None

Next ==
    \/ Call_click_count
    \/ Call_true_click_count
    \/ Call_mouse_left
    \/ Call_mouse_right
    \/ Call_k1
    \/ Call_k2
    \/ Call_k1_frames
    \/ Call_mouse_left_frames
    \/ Call_k2_frames
    \/ Call_mouse_right_frames
    \/ Call_average_position
    \/ Call_estimated_frame_rate

\* the metrics of one Replay, called in any order, any number of times
Spec == Init /\ [][Next]_vars

\* from_file entered with the bytes of one file
InitDecode ==
    /\ \E in \in Inputs : raw = in[1] /\ kind = in[2] /\ data = in[1]
    /\ pc = "mode"
    /\ exc = ""
    /\ val = 0
    /\ shift = 0
    /\ i = 0
    /\ player_inputs = <<>>
    /\ replay = Replay_init
    /\ op = ""
    /\ ret = NoRet
    /\ watch = "click_count"
    /\ first = None

NextDecode ==
    \/ ReadMode
    \/ ReadVersion
    \/ ReadBeatmapHash
    \/ ReadPlayerName
    \/ ReadReplayHash
    \/ ReadCounts
    \/ ReadLifeGraphMarker
    \/ VarintStep
    \/ ReadChart
    \/ ReadPayload
    \/ Decompress
    \/ ParseFrames

\* one call of from_file, step by step
SpecDecode == InitDecode /\ [][NextDecode]_vars

----------------------------------------------------------------------------
(* Properties of the metrics, checked under Spec.                          *)

BitSet(frame, key) == BitAnd(frame[4], key) # 0

\* the frames that have the bit set
HeldCount(frames, key) ==
    Cardinality({j \in DOMAIN frames : BitSet(frames[j], key)})

\* the maximal runs of frames with the bit set that a frame with the bit
\* clear ends
EndedRuns(frames, key) ==
    Cardinality({j \in 1..(Len(frames) - 1) :
                    BitSet(frames[j], key) /\ ~BitSet(frames[j + 1], key)})

Dispatch(name, self) ==
    CASE name = "click_count" -> click_count(self)
      [] name = "true_click_count" -> true_click_count(self)
      [] name = "mouse_left" -> mouse_left(self)
      [] name = "mouse_right" -> mouse_right(self)
      [] name = "k1" -> k1(self)
      [] name = "k2" -> k2(self)
      [] name = "k1_frames" -> k1_frames(self)
      [] name = "mouse_left_frames" -> mouse_left_frames(self)
      [] name = "k2_frames" -> k2_frames(self)
      [] name = "mouse_right_frames" -> mouse_right_frames(self)
      [] name = "average_position" -> average_position(self)
      [] name = "estimated_frame_rate" -> estimated_frame_rate(self)

\* the instance with the same decoded fields and every memo slot empty
Uncached(self) ==
    [self EXCEPT !.__total_x = None, !.__total_y = None,
                 !.__mouse_left_frames = None, !.__mouse_right_frames = None,
                 !.__k1_frames = None, !.__k2_frames = None,
                 !.__mouse_left = None, !.__mouse_right = None,
                 !.__k1 = None, !.__k2 = None]

IntegerAccessors ==
    {"mouse_left", "mouse_right", "k1", "k2", "k1_frames", "k2_frames",
     "mouse_left_frames", "mouse_right_frames"}

\* C1: a metric called again returns the value its first call returned.
C1_RepeatedCallReturnsFirstValue ==
    (op = watch /\ first # None) => ret = Get(first)

\* C2: the discrete press count of a button is the number of maximal runs
\* of frames with its bit set, each counted when a frame with the bit clear
\* ends it (0 when the bit is never set), and the mouse counts of
\* true_click_count are the mouse-bit count minus the key count.
C2_PressCountIsEndedRuns ==
    replay.raw_input_data # None =>
        LET frames == Get(replay.raw_input_data)
            n_left == EndedRuns(frames, MOUSE_LEFT)
            n_right == EndedRuns(frames, MOUSE_RIGHT)
            n_k1 == EndedRuns(frames, K1)
            n_k2 == EndedRuns(frames, K2)
        IN  /\ op = "k1" => ret = IntRet(n_k1)
            /\ op = "k2" => ret = IntRet(n_k2)
            /\ op = "mouse_left" => ret = IntRet(n_left - n_k1)
            /\ op = "mouse_right" => ret = IntRet(n_right - n_k2)
            /\ op = "true_click_count" =>
                   ret = TupleRet(n_left - n_k1, n_right - n_k2, n_k1, n_k2)

\* C3: on available frames k1_frames and k2_frames are the numbers of
\* frames with bit K1 and bit K2 set, mouse_left_frames and
\* mouse_right_frames the numbers of frames with the mouse bit set minus
\* those, and all four are the components of the first click_count result.
C3_HeldFrameAccessors ==
    replay.raw_input_data # None =>
        LET frames == Get(replay.raw_input_data)
            n_left == HeldCount(frames, MOUSE_LEFT)
            n_right == HeldCount(frames, MOUSE_RIGHT)
            n_k1 == HeldCount(frames, K1)
            n_k2 == HeldCount(frames, K2)
            counted == watch = "click_count" /\ first # None
        IN  /\ op = "k1_frames" =>
                   /\ ret = IntRet(n_k1)
                   /\ counted => ret.val[1] = Get(first).val[3]
            /\ op = "k2_frames" =>
                   /\ ret = IntRet(n_k2)
                   /\ counted => ret.val[1] = Get(first).val[4]
            /\ op = "mouse_left_frames" =>
                   /\ ret = IntRet(n_left - n_k1)
                   /\ counted => ret.val[1] = Get(first).val[1]
            /\ op = "mouse_right_frames" =>
                   /\ ret = IntRet(n_right - n_k2)
                   /\ counted => ret.val[1] = Get(first).val[2]

\* C7: on a Replay with no frames (an empty tuple, or None) no metric
\* raises: average_position returns (nan, nan), and estimated_frame_rate,
\* click_count and true_click_count return a value.
C7_NoFramesNeverRaises ==
    replay.raw_input_data \in {None, Some(<<>>)} =>
        /\ op = "average_position" => ret = NanPairRet
        /\ op \in {"estimated_frame_rate", "click_count", "true_click_count"}
               => ret.kind # "raise"

\* C8: with raw_input_data None every integer metric returns -1, the two
\* tuples four times -1, whatever was called before.
C8_UnavailableGivesMinusOne ==
    replay.raw_input_data = None =>
        /\ op \in {"click_count", "true_click_count"}
               => ret = TupleRet(-1, -1, -1, -1)
        /\ op \in IntegerAccessors => ret = IntRet(-1)

\* C10: what an integer metric returns does not depend on the metrics
\* called before it: it is what the same call returns on an instance whose
\* memo slots are all empty.
C10_CachesNeverChangeResult ==
    op \in IntegerAccessors \cup {"click_count", "true_click_count"} =>
        ret = Dispatch(op, Uncached(replay)).ret

----------------------------------------------------------------------------
(* Properties of from_file, checked under SpecDecode.                      *)

Rank(p) ==
    CASE p = "mode" -> 0
      [] p = "version" -> 1
      [] p = "beatmap_hash" -> 2
      [] p = "player_name" -> 3
      [] p = "replay_hash" -> 4
      [] p = "counts" -> 5
      [] p = "life_graph" -> 6
      [] p = "varint" -> 7
      [] p = "chart" -> 8
      [] p = "timestamp" -> 9
      [] p = "lzma" -> 10
      [] p = "frames" -> 11
      [] p = "done" -> 12

Past(p) == Rank(pc) > Rank(p)
At(p) == pc = p /\ exc = ""

\* the byte at offset k of the file, -1 past its end
ByteAt(k) == IF k < Len(raw) THEN raw[k + 1] ELSE -1
U16At(k) == ByteAt(k) + 256 * ByteAt(k + 1)
U32At(k) == U16At(k) + 65536 * U16At(k + 2)
Consumed == Len(raw) - Len(data)

\* a gated section that starts at offset k: its width and its field
SectionWidth(k) == IF ByteAt(k) = Marker THEN 2 + ByteAt(k + 1) ELSE 1
SectionField(k) ==
    IF ByteAt(k) = Marker
    THEN Some(SubSeq(raw, k + 3, k + 2 + ByteAt(k + 1)))
    ELSE None

HashOffset == 5
NameOffset == HashOffset + SectionWidth(HashOffset)
ReplayHashOffset == NameOffset + SectionWidth(NameOffset)
CountsOffset == ReplayHashOffset + SectionWidth(ReplayHashOffset)
CountsWidth == 23
LifeGraphOffset == CountsOffset + CountsWidth
HeaderComplete == LifeGraphOffset <= Len(raw)

\* C4: a buffer that ends before a field is complete (a proper prefix of a
\* well-formed replay) makes from_file raise: it returns no Replay.
C4_TruncatedInputFails ==
    kind = "prefix" => pc # "done"

\* C5: each gated section whose marker is 0x0B yields the length-prefixed
\* string after it (the empty string for length 0) and moves the cursor by
\* 2 + length; any other marker leaves the field None and moves the cursor
\* by 1; the counters, score, combo, perfect flag and mods are then read at
\* the offsets that follow, whichever sections are present.
C5_GatedSectionsAndOffsets ==
    HeaderComplete =>
        /\ At("beatmap_hash") => Consumed = HashOffset
        /\ Past("beatmap_hash") => replay.beatmap_hash = SectionField(HashOffset)
        /\ At("player_name") => Consumed = NameOffset
        /\ Past("player_name") => replay.player_name = SectionField(NameOffset)
        /\ At("replay_hash") => Consumed = ReplayHashOffset
        /\ Past("replay_hash")
               => replay.replay_hash = SectionField(ReplayHashOffset)
        /\ At("counts") => Consumed = CountsOffset
        /\ Past("counts") =>
               /\ replay.count_of_perfect = Some(U16At(CountsOffset))
               /\ replay.count_of_good = Some(U16At(CountsOffset + 2))
               /\ replay.count_of_bad = Some(U16At(CountsOffset + 4))
               /\ replay.gekis = Some(U16At(CountsOffset + 6))
               /\ replay.katus = Some(U16At(CountsOffset + 8))
               /\ replay.misses = Some(U16At(CountsOffset + 10))
               /\ replay.score = Some(U32At(CountsOffset + 12))
               /\ replay.highest_combo = Some(U16At(CountsOffset + 16))
               /\ replay.is_perfect = Some(ByteAt(CountsOffset + 18) # 0)
               /\ replay.mods = Some(U32At(CountsOffset + 19))
        /\ At("life_graph") => Consumed = LifeGraphOffset

\* all eight present/absent combinations occur; this one has an empty
\* string, an absent section and a one-character string
C5_Witness ==
    /\ At("life_graph")
    /\ HeaderComplete
    /\ replay.beatmap_hash = Some(<<>>)
    /\ replay.player_name = None
    /\ replay.replay_hash = Some(<<65>>)
    /\ Consumed = 5 + 2 + 1 + 3 + CountsWidth
    /\ replay.count_of_perfect = Some(257)
    /\ replay.mods = Some(265)

\* the frames and seed the claim expects of a frame text
NonEmptyRecords(text) == SelectSeq(Split(text, Comma), LAMBDA r : r # <<>>)

\* C6: of every frame text whose records are well formed (one with no
\* record included): when the last record has delta-time -12345 it is
\* removed and its button field is the seed; otherwise the seed is None and
\* there are as many frames as non-empty records.
C6_SeedRecordSplit ==
    ((pc = "done" \/ (pc = "frames" /\ exc # ""))
        /\ Groups(NonEmptyRecords(player_inputs)).exc = "") =>
        LET recs == Groups(NonEmptyRecords(player_inputs)).v
            n == Len(recs)
        IN  /\ pc = "done"
            /\ IF n > 0 /\ recs[n][1] = SeedDelta
               THEN /\ replay.seed = Some(recs[n][4])
                    /\ replay.raw_input_data = Some(SubSeq(recs, 1, n - 1))
               ELSE /\ replay.seed = None
                    /\ replay.raw_input_data = Some(recs)

\* the lengths whose encodings the files hold
RoundTripValues ==
    VarintValues \cup {Len(c) : c \in Charts} \cup {Len(LongChart)}

\* the bytes of the life-graph section after its marker
AfterLifeGraphMarker == Drop(raw, LifeGraphOffset + 1)

\* the life-graph section of the file holds the encoding of n, and the
\* decoder has entered the section
LengthEncoded(n) ==
    /\ HeaderComplete
    /\ ByteAt(LifeGraphOffset) = Marker
    /\ Take(AfterLifeGraphMarker, Len(EncodeVarint(n))) = EncodeVarint(n)
    /\ Past("life_graph")

\* what holds of the loop's variables while and after it runs on the
\* encoding of n
C9_LoopState ==
    \A n \in RoundTripValues :
        LET enc == EncodeVarint(n)
            rest == Drop(AfterLifeGraphMarker, Len(enc))
        IN  LengthEncoded(n) =>
                /\ pc = "varint" =>
                       /\ exc = ""
                       /\ i < Len(enc)
                       /\ shift = 7 * i
                       /\ val = n % (2 ^ shift)
                       /\ data = AfterLifeGraphMarker
                /\ Past("varint") => val = n /\ i = Len(enc) - 1
                /\ At("chart") => data = AfterLifeGraphMarker
                /\ At("timestamp") =>
                       /\ data = Drop(rest, n)
                       /\ replay.life_graph =
                              Some(ChartPairs(Split(Take(rest, n), Comma)).v)

\* a turn of the loop leaves it or moves on to the next byte
C9_LoopProgress ==
    (At("varint") /\ \E n \in RoundTripValues : LengthEncoded(n)) =>
        /\ exc' = ""
        /\ pc' = "chart" \/ (pc' = "varint" /\ i' = i + 1)

\* C9: the length loop inverts the base-128 encoding (7-bit groups, low
\* group first, 0x80 set on every byte but the last): on the encoding of
\* every n it never reads past the encoding, each turn moves one byte on,
\* it stops at the last byte of the encoding with val = n, and the chart
\* text is taken from the byte after that one.
C9_VarintRoundTrip == []C9_LoopState /\ [][C9_LoopProgress]_vars

C9_Witness ==
    /\ At("chart")
    /\ LengthEncoded(2147483647)
    /\ val = 2147483647
    /\ i = 4
    /\ Take(data, 5) = <<255, 255, 255, 255, 7>>
====
